---- MODULE Spec2Model ----
(***************************************************************************)
(* filter_dd_keys.py: a git-filter-repo blob callback that loads regular   *)
(* expressions from dd-keys-pattern.txt and replaces every match in a      *)
(* blob with '[REMOVED_DD_KEY]'.                                           *)
(*                                                                         *)
(* Text is a sequence of Unicode code points, a byte buffer a sequence of  *)
(* numbers in 0..255.  Positions in a text are counted as the number of    *)
(* characters before them (0..Len), as Python's match spans are.           *)
(***************************************************************************)
EXTENDS Integers, Sequences, FiniteSets, TLC

(***************************************************************************)
(* Notation: characters of the ASCII range by their code point.            *)
(***************************************************************************)
AsciiPrintable ==
    << " ", "!", "\"", "#", "$", "%", "&", "'", "(", ")", "*", "+", ",", "-", ".", "/",
       "0", "1", "2", "3", "4", "5", "6", "7", "8", "9", ":", ";", "<", "=", ">", "?",
       "@", "A", "B", "C", "D", "E", "F", "G", "H", "I", "J", "K", "L", "M", "N", "O",
       "P", "Q", "R", "S", "T", "U", "V", "W", "X", "Y", "Z", "[", "\\", "]", "^", "_",
       "grave", "a", "b", "c", "d", "e", "f", "g", "h", "i", "j", "k", "l", "m", "n", "o",
       "p", "q", "r", "s", "t", "u", "v", "w", "x", "y", "z", "{", "|", "}", "~" >>

\* ord(c) of a one-character string
Ord(c) ==
    CASE c = "\t" -> 9
      [] c = "\n" -> 10
      [] c = "\r" -> 13
      [] OTHER -> 31 + (CHOOSE i \in 1..Len(AsciiPrintable) : AsciiPrintable[i] = c)

\* the str whose characters are the one-character strings of t
Str(t) == [i \in 1..Len(t) |-> Ord(t[i])]

OrdSet(S) == {Ord(c) : c \in S}

\* U+FFFD, the character errors='replace' puts for undecodable bytes
ReplacementChar == 65533

\* a replacement text that masks with x's
MarkerMasked == [i \in 1..16 |-> Ord("x")]

\* the replacement text of pattern.sub
Marker == Str(<<"[", "R", "E", "M", "O", "V", "E", "D", "_", "D", "D", "_", "K", "E", "Y", "]">>)

(***************************************************************************)
(* General sequence helpers.                                               *)
(***************************************************************************)
\* s[a+1 .. b], the Python slice s[a:b] for 0 <= a <= b <= Len(s)
Slice(s, a, b) == [i \in 1..(b - a) |-> s[a + i]]

RECURSIVE SeqsOfLen(_, _)
SeqsOfLen(S, n) ==
    IF n = 0 THEN {<<>>}
    ELSE {Append(s, x) : s \in SeqsOfLen(S, n - 1), x \in S}

SeqsUpTo(S, n) == UNION {SeqsOfLen(S, k) : k \in 0..n}

(***************************************************************************)
(* bytes.decode('utf-8', errors='replace') and str.encode('utf-8').        *)
(***************************************************************************)
\* number of continuation bytes a lead byte asks for, -1 for a byte that
\* cannot start a sequence
Utf8Need(b) ==
    IF b < 128 THEN 0
    ELSE IF b >= 194 /\ b <= 223 THEN 1
    ELSE IF b >= 224 /\ b <= 239 THEN 2
    ELSE IF b >= 240 /\ b <= 244 THEN 3
    ELSE -1

\* the bytes allowed right after lead byte b
Utf8SecondRange(b) ==
    IF b = 224 THEN 160..191
    ELSE IF b = 237 THEN 128..159
    ELSE IF b = 240 THEN 144..191
    ELSE IF b = 244 THEN 128..143
    ELSE 128..191

\* how many of the (up to need) bytes after position i continue the sequence
\* started by the lead byte at i
RECURSIVE Utf8Got(_, _, _, _)
Utf8Got(bytes, i, need, k) ==
    IF k > need \/ i + k > Len(bytes) THEN k - 1
    ELSE IF bytes[i + k] \in (IF k = 1 THEN Utf8SecondRange(bytes[i]) ELSE 128..191)
         THEN Utf8Got(bytes, i, need, k + 1)
         ELSE k - 1

\* the bytes after position i that the decoder takes together with it
Utf8Taken(bytes, i) ==
    IF Utf8Need(bytes[i]) < 1 THEN 0 ELSE Utf8Got(bytes, i, Utf8Need(bytes[i]), 1)

Utf8LeadBits(b, need) ==
    IF need = 1 THEN b - 192 ELSE IF need = 2 THEN b - 224 ELSE b - 240

RECURSIVE Utf8CodePoint(_, _, _, _)
Utf8CodePoint(bytes, i, need, k) ==
    IF k = 0 THEN Utf8LeadBits(bytes[i], need)
    ELSE Utf8CodePoint(bytes, i, need, k - 1) * 64 + (bytes[i + k] - 128)

\* whether the bytes the decoder takes at position i are a whole sequence
Utf8Valid(bytes, i) ==
    Utf8Need(bytes[i]) >= 0 /\ Utf8Taken(bytes, i) = Utf8Need(bytes[i])

\* the decoder scans from the left and, at position i, takes the byte and
\* the Utf8Taken continuation bytes after it.  Only continuation bytes
\* (0x80..0xBF) are ever taken with an earlier byte, so the scan stops at
\* position i unless a byte at most three places before it took this one.
Utf8IsStart(bytes, i) ==
    \/ bytes[i] \notin 128..191
    \/ ~\E j \in 1..(i - 1) :
          /\ i - j <= 3
          /\ bytes[j] \notin 128..191
          /\ \A m \in (j + 1)..(i - 1) : bytes[m] \in 128..191
          /\ i - j <= Utf8Taken(bytes, j)

\* the character decoded at position i: errors='replace' gives U+FFFD for
\* the bytes of a sequence that is not whole
Utf8Char(bytes, i) ==
    IF Utf8Need(bytes[i]) = 0 THEN bytes[i]
    ELSE IF Utf8Valid(bytes, i)
         THEN Utf8CodePoint(bytes, i, Utf8Need(bytes[i]), Utf8Need(bytes[i]))
         ELSE ReplacementChar

Indices(s) == [i \in 1..Len(s) |-> i]

\* strict = TRUE is errors='strict': the first undecodable byte raises
DecodeWith(bytes, strict) ==
    LET IsStart(i) == Utf8IsStart(bytes, i)
        starts == SelectSeq(Indices(bytes), IsStart)
    IN  IF strict /\ \E k \in 1..Len(starts) : ~Utf8Valid(bytes, starts[k])
        THEN [raised |-> "UnicodeDecodeError", text |-> <<>>]
        ELSE [raised |-> "none",
              text |-> [k \in 1..Len(starts) |-> Utf8Char(bytes, starts[k])]]

DecodeStrict(bytes) == DecodeWith(bytes, TRUE)

\* blob.data.decode('utf-8', errors='replace')
Decode(bytes) == DecodeWith(bytes, FALSE)

EncodeChar(c) ==
    IF c < 128 THEN <<c>>
    ELSE IF c < 2048 THEN <<192 + (c \div 64), 128 + (c % 64)>>
    ELSE IF c < 65536 THEN <<224 + (c \div 4096), 128 + ((c \div 64) % 64), 128 + (c % 64)>>
    ELSE <<240 + (c \div 262144), 128 + ((c \div 4096) % 64),
           128 + ((c \div 64) % 64), 128 + (c % 64)>>

\* the bytes of text[lo..hi], by halves
RECURSIVE EncodeRange(_, _, _)
EncodeRange(text, lo, hi) ==
    IF lo > hi THEN <<>>
    ELSE IF lo = hi THEN EncodeChar(text[lo])
    ELSE LET mid == (lo + hi) \div 2
         IN  EncodeRange(text, lo, mid) \o EncodeRange(text, mid + 1, hi)

\* cleaned.encode('utf-8'): a surrogate cannot be encoded
Encode(text) ==
    IF \E i \in 1..Len(text) : text[i] >= 55296 /\ text[i] <= 57343
    THEN [raised |-> "UnicodeEncodeError", bytes |-> <<>>]
    ELSE [raised |-> "none", bytes |-> EncodeRange(text, 1, Len(text))]

(***************************************************************************)
(* re.compile(line, re.IGNORECASE) for the patterns built from literal     *)
(* characters, escaped punctuation, \d, '.', the greedy quantifiers        *)
(* * + ? and '|'.  A compiled pattern is its source and its alternatives,  *)
(* each a sequence of items [kind, c, q].  Syntax outside this class       *)
(* (groups, character sets, anchors, lazy quantifiers, other escapes) is   *)
(* reported as "unsupported" and no input of the model uses it.            *)
(***************************************************************************)
AsciiLetters == (65..90) \cup (97..122)
AsciiAlnum == AsciiLetters \cup (48..57)

\* escapes re rejects with "bad escape" or "invalid group reference"
BadEscapes ==
    OrdSet({"c", "e", "g", "h", "i", "j", "k", "l", "m", "o", "p", "q", "u", "x", "y", "z",
            "C", "E", "F", "G", "H", "I", "J", "K", "L", "M", "N", "O", "P", "Q", "R", "T",
            "U", "V", "X", "Y", "1", "2", "3", "4", "5", "6", "7", "8", "9"})

Quantifiers == OrdSet({"*", "+", "?"})

QuantOf(c) == IF c = Ord("*") THEN "*" ELSE IF c = Ord("+") THEN "+" ELSE "?"

Item(kind, c) == [kind |-> kind, c |-> c, q |-> "1"]

CompileError(why) == [ok |-> FALSE, why |-> why, alts |-> <<>>]

HasAfter(src, i, c) == \E j \in (i + 1)..Len(src) : src[j] = c

RECURSIVE ParseFrom(_, _, _, _)
ParseFrom(src, i, alts, cur) ==
    IF i > Len(src) THEN [ok |-> TRUE, why |-> "", alts |-> Append(alts, cur)]
    ELSE LET c == src[i] IN
      IF c = Ord("|") THEN ParseFrom(src, i + 1, Append(alts, cur), <<>>)
      ELSE IF c \in Quantifiers THEN
        IF cur = <<>> THEN CompileError("nothing to repeat")
        ELSE IF cur[Len(cur)].q # "1"
             THEN IF c = Ord("?") THEN CompileError("unsupported")
                  ELSE CompileError("multiple repeat")
        ELSE ParseFrom(src, i + 1, alts,
                       [cur EXCEPT ![Len(cur)] = [@ EXCEPT !.q = QuantOf(c)]])
      ELSE IF c = Ord("\\") THEN
        IF i = Len(src) THEN CompileError("bad escape (end of pattern)")
        ELSE LET e == src[i + 1] IN
          IF e = Ord("d") THEN ParseFrom(src, i + 2, alts, Append(cur, Item("digit", 0)))
          ELSE IF e \in BadEscapes THEN CompileError("bad escape")
          ELSE IF e \in AsciiAlnum THEN CompileError("unsupported")
          ELSE ParseFrom(src, i + 2, alts, Append(cur, Item("lit", e)))
      ELSE IF c = Ord(".") THEN ParseFrom(src, i + 1, alts, Append(cur, Item("any", 0)))
      ELSE IF c = Ord(")") THEN CompileError("unbalanced parenthesis")
      ELSE IF c = Ord("(") THEN
        IF HasAfter(src, i, Ord(")")) THEN CompileError("unsupported")
        ELSE CompileError("missing ), unterminated subpattern")
      ELSE IF c = Ord("[") THEN
        IF HasAfter(src, i, Ord("]")) THEN CompileError("unsupported")
        ELSE CompileError("unterminated character set")
      ELSE IF c \in OrdSet({"{", "^", "$"}) THEN CompileError("unsupported")
      ELSE ParseFrom(src, i + 1, alts, Append(cur, Item("lit", c)))

\* re.compile(src, re.IGNORECASE): ok = FALSE is re.error
Compile(src) ==
    LET r == ParseFrom(src, 1, <<>>, <<>>)
    IN  [ok |-> r.ok, why |-> r.why, pattern |-> src, alts |-> r.alts]

(***************************************************************************)
(* Matching, as the backtracking engine does it: alternatives in order,    *)
(* greedy repeats from the longest run down, the first success wins.       *)
(***************************************************************************)
\* simple case folding of the characters the model's inputs hold
Lower(c) ==
    IF c >= 65 /\ c <= 90 THEN c + 32
    ELSE IF c >= 192 /\ c <= 222 /\ c # 215 THEN c + 32
    ELSE c

\* \d over the characters the model's inputs hold (no non-ASCII digit)
IsDigit(c) == c >= 48 /\ c <= 57

\* one item against one character under re.IGNORECASE
AtomMatches(item, c) ==
    CASE item.kind = "lit" -> Lower(item.c) = Lower(c)
      [] item.kind = "digit" -> IsDigit(c)
      [] OTHER -> c # 10

\* the longest run of characters from position i each matching item, capped
MaxRun(item, text, i, cap) ==
    LET most == IF cap < Len(text) - i THEN cap ELSE Len(text) - i
        runs == {n \in 0..most : \A j \in 1..n : AtomMatches(item, text[i + j])}
    IN  CHOOSE n \in runs : \A m \in runs : m <= n

\* the end of the first match, in the engine's order of preference, of
\* items[k..] at position i, or -1; a match that ends where the whole match
\* started is refused when mustAdvance
RECURSIVE MatchItems(_, _, _, _, _, _)
RECURSIVE TryRuns(_, _, _, _, _, _, _, _)
MatchItems(items, k, text, i, start, mustAdvance) ==
    IF k > Len(items) THEN (IF mustAdvance /\ i = start THEN -1 ELSE i)
    ELSE LET it == items[k] IN
      IF it.q = "1" THEN
        IF i < Len(text) /\ AtomMatches(it, text[i + 1])
        THEN MatchItems(items, k + 1, text, i + 1, start, mustAdvance)
        ELSE -1
      ELSE LET cap == IF it.q = "?" THEN 1 ELSE Len(text)
               lo  == IF it.q = "+" THEN 1 ELSE 0
           IN  TryRuns(items, k, text, i, start, mustAdvance,
                       MaxRun(it, text, i, cap), lo)

TryRuns(items, k, text, i, start, mustAdvance, n, lo) ==
    IF n < lo THEN -1
    ELSE LET e == MatchItems(items, k + 1, text, i + n, start, mustAdvance)
         IN  IF e # -1 THEN e
             ELSE TryRuns(items, k, text, i, start, mustAdvance, n - 1, lo)

RECURSIVE MatchAlts(_, _, _, _, _)
MatchAlts(alts, a, text, i, mustAdvance) ==
    IF a > Len(alts) THEN -1
    ELSE LET e == MatchItems(alts[a], 1, text, i, i, mustAdvance)
         IN  IF e # -1 THEN e ELSE MatchAlts(alts, a + 1, text, i, mustAdvance)

\* pattern.match at position i: the end of the match or -1
MatchAt(pat, text, i, mustAdvance) == MatchAlts(pat.alts, 1, text, i, mustAdvance)

\* pattern.search from pos: the span <<s, e>> of the leftmost match, or <<>>;
\* only a match at pos itself can be held to advance
SearchFrom(pat, text, pos, mustAdvance) ==
    LET At(s) == MatchAt(pat, text, s, mustAdvance /\ s = pos)
        found == {s \in pos..Len(text) : At(s) # -1}
    IN  IF found = {} THEN <<>>
        ELSE LET s == CHOOSE x \in found : \A y \in found : x <= y
             IN  <<s, At(s)>>

\* pattern.search(text) is not None
Search(pat, text) == SearchFrom(pat, text, 0, FALSE) # <<>>

\* the spans pattern.sub replaces: the next search starts where the last
\* match ended and, after an empty match, must advance
RECURSIVE SpansFrom(_, _, _, _, _)
SpansFrom(pat, text, pos, mustAdvance, acc) ==
    LET m == SearchFrom(pat, text, pos, mustAdvance)
    IN  IF m = <<>> THEN acc
        ELSE SpansFrom(pat, text, m[2], m[2] = m[1], Append(acc, m))

Spans(pat, text) == SpansFrom(pat, text, 0, FALSE, <<>>)

\* text with each span replaced by repl
RECURSIVE Splice(_, _, _, _, _)
Splice(text, spans, k, pos, repl) ==
    IF k > Len(spans) THEN Slice(text, pos, Len(text))
    ELSE Slice(text, pos, spans[k][1]) \o repl
           \o Splice(text, spans, k + 1, spans[k][2], repl)

\* pattern.sub(repl, text, count=1): only the first match is replaced
subFirstOnly(pat, repl, text) ==
    LET m == SearchFrom(pat, text, 0, FALSE)
    IN  IF m = <<>> THEN text ELSE Splice(text, <<m>>, 1, 0, repl)

\* pattern.sub(repl, text)
sub(pat, repl, text) == Splice(text, Spans(pat, text), 1, 0, repl)

(***************************************************************************)
(* The pattern loader (module level, lines 6-12).                          *)
(***************************************************************************)
\* open(..., 'r') reads with universal newlines: \r\n and \r become \n
TranslateNewlines(raw) ==
    LET IsLfOfCrLf(i) == raw[i] = 10 /\ i > 1 /\ raw[i - 1] = 13
        Kept(i) == ~IsLfOfCrLf(i)
        kept == SelectSeq(Indices(raw), Kept)
    IN  [k \in 1..Len(kept) |-> IF raw[kept[k]] = 13 THEN 10 ELSE raw[kept[k]]]

\* 'for line in f': the lines of the text, each with its newline, and what
\* follows the last newline if anything does
LinesOf(text) ==
    LET IsNewline(i) == text[i] = 10
        ends == SelectSeq(Indices(text), IsNewline)
        n == Len(ends)
        lastEnd == IF n = 0 THEN 0 ELSE ends[n]
        whole == [k \in 1..n |-> Slice(text, IF k = 1 THEN 0 ELSE ends[k - 1], ends[k])]
    IN  IF lastEnd < Len(text) THEN Append(whole, Slice(text, lastEnd, Len(text)))
        ELSE whole

ReadLines(raw) == LinesOf(TranslateNewlines(raw))

\* str.isspace
IsSpace(c) ==
    c \in (9..13) \cup (28..32) \cup {133, 160, 5760} \cup (8192..8202)
          \cup {8232, 8233, 8239, 8287, 12288}

\* line.strip(): from the first to the last character that is no whitespace
strip(s) ==
    LET solid == {i \in 1..Len(s) : ~IsSpace(s[i])}
    IN  IF solid = {} THEN <<>>
        ELSE Slice(s, (CHOOSE i \in solid : \A j \in solid : i <= j) - 1,
                      CHOOSE i \in solid : \A j \in solid : j <= i)

\* line.startswith('#')
startswith(s, c) == s # <<>> /\ s[1] = c

\* line 11: 'if line and not line.startswith('#')', line already stripped
KeepLineNoComment(line) == line # <<>>

KeepLine(line) == line # <<>> /\ ~startswith(line, Ord("#"))

\* lines 10-12 for one line of the file: the pattern list afterwards, or
\* the error re.compile raises
LoadLineSkipInvalid(pats, rawLine) ==
    LET line == strip(rawLine)
        p    == Compile(line)
    IN  IF KeepLine(line) /\ p.ok
        THEN [raised |-> "none", patterns |-> Append(pats, p)]
        ELSE [raised |-> "none", patterns |-> pats]

LoadLine(pats, rawLine) ==
    LET line == strip(rawLine)
    IN  IF KeepLine(line)
        THEN LET p == Compile(line)
             IN  IF p.ok THEN [raised |-> "none", patterns |-> Append(pats, p)]
                 ELSE [raised |-> "re.error", patterns |-> pats]
        ELSE [raised |-> "none", patterns |-> pats]

\* lines 7-12 run to the end on a file that exists
RECURSIVE LoadFrom(_, _, _)
LoadFrom(lines, i, pats) ==
    IF i > Len(lines) THEN [raised |-> "none", patterns |-> pats]
    ELSE LET r == LoadLine(pats, lines[i])
         IN  IF r.raised # "none" THEN r ELSE LoadFrom(lines, i + 1, r.patterns)

LoadFile(raw) == LoadFrom(ReadLines(raw), 1, <<>>)

(***************************************************************************)
(* clean_message, clean_content and callback (lines 14-29).                *)
(***************************************************************************)
\* the loop of lines 20-21 from pattern k on
RECURSIVE ScrubFrom(_, _, _)
ScrubFrom(pats, k, content) ==
    IF k > Len(pats) THEN content
    ELSE ScrubFrom(pats, k + 1, sub(pats[k], Marker, content))

\* the loop run from the last pattern to the first
RECURSIVE ScrubReversed(_, _, _)
ScrubReversed(pats, k, content) ==
    IF k < 1 THEN content
    ELSE ScrubReversed(pats, k - 1, sub(pats[k], Marker, content))

clean_content_reversed(pats, content) == ScrubReversed(pats, Len(pats), content)

clean_content(pats, content) == ScrubFrom(pats, 1, content)

clean_message(pats, message) == ScrubFrom(pats, 1, message)

\* lines 27-28: what blob.data holds afterwards
WriteBackAlways(data, content, cleaned) == Encode(cleaned)

\* the comparison made and its result dropped: blob.data is never assigned
WriteBackDropped(data, content, cleaned) == [raised |-> "none", bytes |-> data]

WriteBack(data, content, cleaned) ==
    IF cleaned # content THEN Encode(cleaned) ELSE [raised |-> "none", bytes |-> data]

\* callback(blob, data) run to the end on a blob holding data: what it
\* returns or raises, and what blob.data holds afterwards
callback(pats, data) ==
    LET dec == Decode(data)
    IN  IF dec.raised # "none"
        THEN [raised |-> dec.raised, returned |-> "none", data |-> data]
        ELSE LET w == WriteBack(data, dec.text, clean_content(pats, dec.text))
             IN  IF w.raised # "none"
                 THEN [raised |-> w.raised, returned |-> "none", data |-> data]
                 ELSE [raised |-> "none", returned |-> "True", data |-> w.bytes]

(***************************************************************************)
(* Bounds and input universes.                                             *)
(***************************************************************************)
MaxLines == 2
MaxPatterns == 2
MaxTextLen == 3
MaxBlobLen == 3
NInvocations == 2

Invocations == 1..NInvocations

\* the lines joined by newlines, as a file holds them
RECURSIVE JoinLines(_)
JoinLines(ls) ==
    IF ls = <<>> THEN <<>>
    ELSE IF Len(ls) = 1 THEN ls[1]
    ELSE ls[1] \o <<10>> \o JoinLines(Tail(ls))

File(raw) == [exists |-> TRUE, raw |-> raw]
MissingFile == [exists |-> FALSE, raw |-> <<>>]

\* lines a pattern file of the loader runs may hold: patterns, comments,
\* blank lines, padded lines and lines that are no regular expression
LoaderLines ==
    { Str(<<"f", "o", "o">>),
      Str(<<"#", " ", "c", "o", "m", "m", "e", "n", "t">>),
      <<>>,
      Str(<<"b", "a", "r">>),
      Str(<<" ", "a", "+", "\t">>),
      Str(<<"(">>),
      Str(<<" ", " ", "#", "*">>) }

\* foo\n# comment\n\nbar
ExampleFile ==
    File(JoinLines(<< Str(<<"f", "o", "o">>),
                      Str(<<"#", " ", "c", "o", "m", "m", "e", "n", "t">>),
                      <<>>,
                      Str(<<"b", "a", "r">>) >>))

\* x\r\n*\r\n with Windows line ends: the second line is no regular expression
CrLfFile == File(Str(<<"x", "\r", "\n", "*", "\r", "\n">>))

LoaderFiles ==
    {File(JoinLines(ls)) : ls \in SeqsUpTo(LoaderLines, MaxLines)}
        \cup {ExampleFile, CrLfFile, MissingFile}

\* foo\d+ and key=FOO123
ExamplePattern == Str(<<"f", "o", "o", "\\", "d", "+">>)
ExampleText == Str(<<"k", "e", "y", "=", "F", "O", "O", "1", "2", "3">>)

LoaderTexts == {<<>>, Str(<<"f", "o", "o">>), Str(<<"B", "a", "r", " ", "a">>), ExampleText}
LoaderBlobs == {Str(<<"f", "o", "o">>), <<255>>, Str(<<"a", "a">>)}

\* sources of the scrubber runs: a\[  x  a+  k
ScrubSources ==
    {Str(<<"a", "\\", "[">>), Str(<<"x">>), Str(<<"a", "+">>), Str(<<"k">>)}

\* a*, which matches the empty string, as the only pattern
NullablePattern == Str(<<"a", "*">>)

ScrubFiles ==
    {File(JoinLines(ls)) : ls \in SeqsUpTo(ScrubSources, MaxPatterns)}
        \cup {File(ExamplePattern), File(NullablePattern)}

ScrubAlphabet == OrdSet({"a", "x", "["})
ScrubTexts == SeqsUpTo(ScrubAlphabet, MaxTextLen) \cup {ExampleText}

\* a, [, and the bytes of U+00E9: 0xC3 0xA9, each undecodable on its own
BlobAlphabet == {97, 91, 195, 169}
ScrubBlobs == SeqsUpTo(BlobAlphabet, MaxBlobLen)

ConcFiles == {File(Str(<<"a", "+">>)), File(Str(<<"x", "\n", "k">>))}
ConcBlobs == {Str(<<"a">>), Str(<<"x", "a">>), <<255>>}

(***************************************************************************)
(* State.                                                                  *)
(***************************************************************************)
VARIABLES
    file,      \* dd-keys-pattern.txt: whether it exists and what it holds
    phase,     \* "open", "reading", "ready" (module loaded) or "aborted"
    lines,     \* the lines 'for line in f' yields
    lineNo,    \* the next line to read
    patterns,  \* the module-level list
    raised,    \* the error the module's load ended in, or "none"
    last,      \* the last call of clean_message, clean_content or callback
    blob0,     \* concurrent invocations: blob.data when callback was entered
    blob,      \* blob.data of each invocation's blob
    pc,        \* where each invocation stands
    content,   \* each invocation's local 'content'
    cleaned,   \* each invocation's local 'cleaned'
    returned   \* what each invocation returned

vars == <<file, phase, lines, lineNo, patterns, raised, last,
          blob0, blob, pc, content, cleaned, returned>>

loaderVars == <<file, phase, lines, lineNo, patterns, raised>>
invocationVars == <<blob0, blob, pc, content, cleaned, returned>>

NoCall == [op |-> "none", arg |-> <<>>, text |-> <<>>, data |-> <<>>,
           returned |-> "none", raised |-> "none"]

NoInvocations ==
    /\ blob0 = [t \in Invocations |-> <<>>]
    /\ blob = [t \in Invocations |-> <<>>]
    /\ pc = [t \in Invocations |-> "idle"]
    /\ content = [t \in Invocations |-> <<>>]
    /\ cleaned = [t \in Invocations |-> <<>>]
    /\ returned = [t \in Invocations |-> "none"]

\* the state once the module has loaded from f
Loaded(f) ==
    /\ file = f
    /\ phase = "ready"
    /\ lines = ReadLines(f.raw)
    /\ lineNo = Len(ReadLines(f.raw)) + 1
    /\ patterns = LoadFile(f.raw).patterns
    /\ raised = "none"

(***************************************************************************)
(* The loader, a line at a time.                                           *)
(***************************************************************************)
\* line 8: open('dd-keys-pattern.txt', 'r')
OpenFile ==
    /\ phase = "open"
    /\ IF file.exists
       THEN /\ phase' = "reading"
            /\ lines' = ReadLines(file.raw)
            /\ raised' = raised
       ELSE /\ phase' = "aborted"
            /\ lines' = lines
            /\ raised' = "FileNotFoundError"
    /\ UNCHANGED <<file, lineNo, patterns, last, invocationVars>>

\* lines 9-12 for the next line
ReadLine ==
    /\ phase = "reading"
    /\ lineNo <= Len(lines)
    /\ LET r == LoadLine(patterns, lines[lineNo])
       IN  /\ patterns' = r.patterns
           /\ raised' = r.raised
           /\ IF r.raised = "none"
              THEN lineNo' = lineNo + 1 /\ phase' = phase
              ELSE lineNo' = lineNo /\ phase' = "aborted"
    /\ UNCHANGED <<file, lines, last, invocationVars>>

\* the loop ends, the 'def' statements of lines 14-29 run and the module
\* is imported: from here on its functions can be called
EndOfFile ==
    /\ phase = "reading"
    /\ lineNo > Len(lines)
    /\ phase' = "ready"
    /\ UNCHANGED <<file, lines, lineNo, patterns, raised, last, invocationVars>>

(***************************************************************************)
(* Calls of the module's functions, each run to its end.                   *)
(***************************************************************************)
CallCleanMessageDraining(message) ==
    /\ phase = "ready"
    /\ last = NoCall
    /\ last' = [NoCall EXCEPT !.op = "clean_message", !.arg = message,
                              !.text = clean_message(patterns, message),
                              !.returned = "str"]
    /\ patterns' = IF patterns = <<>> THEN patterns ELSE Tail(patterns)
    /\ UNCHANGED <<file, phase, lines, lineNo, raised, invocationVars>>

CallCleanMessage(message) ==
    /\ phase = "ready"
    /\ last = NoCall
    /\ last' = [NoCall EXCEPT !.op = "clean_message", !.arg = message,
                              !.text = clean_message(patterns, message),
                              !.returned = "str"]
    /\ UNCHANGED <<loaderVars, invocationVars>>

CallCleanContent(text) ==
    /\ phase = "ready"
    /\ last = NoCall
    /\ last' = [NoCall EXCEPT !.op = "clean_content", !.arg = text,
                              !.text = clean_content(patterns, text),
                              !.returned = "str"]
    /\ UNCHANGED <<loaderVars, invocationVars>>

CallCallback(data) ==
    /\ phase = "ready"
    /\ last = NoCall
    /\ LET out == callback(patterns, data)
       IN  last' = [NoCall EXCEPT !.op = "callback", !.arg = data,
                                  !.data = out.data, !.returned = out.returned,
                                  !.raised = out.raised]
    /\ UNCHANGED <<loaderVars, invocationVars>>

\* the caller has taken the result and goes on to its next call
NextCall ==
    /\ last # NoCall
    /\ last' = NoCall
    /\ UNCHANGED <<loaderVars, invocationVars>>

(***************************************************************************)
(* Concurrent invocations of callback, each on its own blob, a statement   *)
(* at a time.                                                              *)
(***************************************************************************)
\* line 25 with 'content' a module-level name: every invocation sees the
\* last value stored
CallbackDecodeShared(t) ==
    /\ pc[t] = "decode"
    /\ content' = [u \in Invocations |-> Decode(blob[t]).text]
    /\ pc' = [pc EXCEPT ![t] = "scrub"]
    /\ UNCHANGED <<loaderVars, last, blob0, blob, cleaned, returned>>

\* line 25
CallbackDecode(t) ==
    /\ pc[t] = "decode"
    /\ content' = [content EXCEPT ![t] = Decode(blob[t]).text]
    /\ pc' = [pc EXCEPT ![t] = "scrub"]
    /\ UNCHANGED <<loaderVars, last, blob0, blob, cleaned, returned>>

\* line 26
CallbackScrub(t) ==
    /\ pc[t] = "scrub"
    /\ cleaned' = [cleaned EXCEPT ![t] = clean_content(patterns, content[t])]
    /\ pc' = [pc EXCEPT ![t] = "write"]
    /\ UNCHANGED <<loaderVars, last, blob0, blob, content, returned>>

\* lines 27-28
CallbackWrite(t) ==
    /\ pc[t] = "write"
    /\ blob' = [blob EXCEPT ![t] = WriteBack(blob[t], content[t], cleaned[t]).bytes]
    /\ pc' = [pc EXCEPT ![t] = "return"]
    /\ UNCHANGED <<loaderVars, last, blob0, content, cleaned, returned>>

\* line 29
CallbackReturn(t) ==
    /\ pc[t] = "return"
    /\ returned' = [returned EXCEPT ![t] = "True"]
    /\ pc' = [pc EXCEPT ![t] = "done"]
    /\ UNCHANGED <<loaderVars, last, blob0, blob, content, cleaned>>

(***************************************************************************)
(* Specifications.                                                         *)
(***************************************************************************)
\* the program from its start: the load, then calls one after another
Init ==
    /\ file \in LoaderFiles
    /\ phase = "open"
    /\ lines = <<>>
    /\ lineNo = 1
    /\ patterns = <<>>
    /\ raised = "none"
    /\ last = NoCall
    /\ NoInvocations

Next ==
    \/ OpenFile
    \/ ReadLine
    \/ EndOfFile
    \/ \E m \in LoaderTexts : CallCleanMessage(m)
    \/ \E c \in LoaderTexts : CallCleanContent(c)
    \/ \E d \in LoaderBlobs : CallCallback(d)
    \/ NextCall

Spec == Init /\ [][Next]_vars

\* the loaded module called on every text and every blob of the bounds
InitScrub ==
    /\ \E f \in ScrubFiles : Loaded(f)
    /\ last = NoCall
    /\ NoInvocations

NextScrub ==
    \/ \E m \in ScrubTexts : CallCleanMessage(m)
    \/ \E c \in ScrubTexts : CallCleanContent(c)
    \/ \E d \in ScrubBlobs : CallCallback(d)
    \/ NextCall

SpecScrub == InitScrub /\ [][NextScrub]_vars

\* the loaded module with callback running in several threads at once
InitConc ==
    /\ \E f \in ConcFiles : Loaded(f)
    /\ last = NoCall
    /\ blob0 \in [Invocations -> ConcBlobs]
    /\ blob = blob0
    /\ pc = [t \in Invocations |-> "decode"]
    /\ content = [t \in Invocations |-> <<>>]
    /\ cleaned = [t \in Invocations |-> <<>>]
    /\ returned = [t \in Invocations |-> "none"]

NextConc ==
    \E t \in Invocations :
        \/ CallbackDecode(t)
        \/ CallbackScrub(t)
        \/ CallbackWrite(t)
        \/ CallbackReturn(t)

SpecConc == InitConc /\ [][NextConc]_vars

(***************************************************************************)
(* Vocabulary of the properties.                                           *)
(***************************************************************************)
\* '[REMOVED_DD_KEY]', as the properties spell it
ClaimMarker ==
    Str(<<"[", "R", "E", "M", "O", "V", "E", "D", "_", "D", "D", "_", "K", "E", "Y", "]">>)

Sources(pats) == [k \in 1..Len(pats) |-> pats[k].pattern]

Contains(text, part) ==
    \E i \in 0..(Len(text) - Len(part)) : Slice(text, i, i + Len(part)) = part

AnyMatch(pats, text) == \E k \in 1..Len(pats) : Search(pats[k], text)

\* no pattern matches the literal redaction marker
NoneMatchesMarker(pats) == \A k \in 1..Len(pats) : ~Search(pats[k], ClaimMarker)

\* the pattern matches the empty string
Nullable(pat) ==
    \E a \in 1..Len(pat.alts) :
        \A i \in 1..Len(pat.alts[a]) : pat.alts[a][i].q \in {"*", "?"}

\* letter case put aside
FoldCase(c) == IF c \in 65..90 THEN c + 32 ELSE c

\* the item can match a character of the marker, in either letter case
ItemTouchesMarker(item) ==
    CASE item.kind = "lit" ->
            \E i \in 1..Len(ClaimMarker) : FoldCase(item.c) = FoldCase(ClaimMarker[i])
      [] item.kind = "digit" -> FALSE
      [] OTHER -> TRUE

\* no pattern can match a text that holds a character of the marker
NoneTouchesMarker(pats) ==
    \A k \in 1..Len(pats) : \A a \in 1..Len(pats[k].alts) :
        \A i \in 1..Len(pats[k].alts[a]) : ~ItemTouchesMarker(pats[k].alts[a][i])

\* no pattern can match the empty string or a text that holds a character
\* of the marker
MarkerSafe(pats) ==
    NoneTouchesMarker(pats) /\ \A k \in 1..Len(pats) : ~Nullable(pats[k])

(***************************************************************************)
(* C1                                                                      *)
(***************************************************************************)
CallbackHadMatch ==
    last.op = "callback" /\ AnyMatch(patterns, Decode(last.arg).text)

Redacted ==
    /\ last.returned = "True"
    /\ Contains(Decode(last.data).text, ClaimMarker)
    /\ ~AnyMatch(patterns, Decode(last.data).text)

ScrubbedAgainUnchanged ==
    clean_content(patterns, last.text) = last.text

C3_NoMatchLeavesBlob ==
    (last.op = "callback" /\ ~AnyMatch(patterns, Decode(last.arg).text))
        => (last.data = last.arg /\ last.returned = "True")

C3_Witness ==
    /\ last.op = "callback"
    /\ patterns # <<>>
    /\ ~AnyMatch(patterns, Decode(last.arg).text)
    /\ DecodeStrict(last.arg).raised # "none"
    /\ last.data = last.arg

(***************************************************************************)
(* C4                                                                      *)
(***************************************************************************)
\* C4: callback never ends in an error and always returns True, whatever
\* the bytes of the blob; bytes that do not decode come out as U+FFFD.
C4_CallbackNeverRaises ==
    last.op = "callback" =>
        /\ last.raised = "none"
        /\ last.returned = "True"
        /\ DecodeStrict(last.arg).raised # "none"
              => \E i \in 1..Len(Decode(last.arg).text) :
                     Decode(last.arg).text[i] = ReplacementChar

C4_Witness ==
    /\ last.op = "callback"
    /\ DecodeStrict(last.arg).raised # "none"
    /\ last.data # last.arg
    /\ last.returned = "True"

(***************************************************************************)
(* C5                                                                      *)
(***************************************************************************)
IsPatternLine(line) == Len(line) > 0 /\ line[1] # Ord("#")

\* the lines of the file, stripped, without the blank and the comment lines
ExpectedSources(raw) ==
    LET read == ReadLines(raw)
    IN  SelectSeq([k \in 1..Len(read) |-> strip(read[k])], IsPatternLine)

\* C5: after a successful load the pattern sequence is the file's lines,
\* stripped, that are not empty and do not start with '#', in file order;
\* the file foo, # comment, (blank), bar gives exactly foo, bar.
C5_LoadedPatterns ==
    phase = "ready" =>
        /\ Sources(patterns) = ExpectedSources(file.raw)
        /\ file = ExampleFile
              => Sources(patterns) = <<Str(<<"f", "o", "o">>), Str(<<"b", "a", "r">>)>>

C5_Witness ==
    /\ phase = "ready"
    /\ file = ExampleFile
    /\ Len(patterns) = 2

(***************************************************************************)
(* C6                                                                      *)
(***************************************************************************)
\* the file is missing or one of its pattern lines is no regular expression
BadConfiguration ==
    \/ ~file.exists
    \/ \E k \in 1..Len(ExpectedSources(file.raw)) :
           ~Compile(ExpectedSources(file.raw)[k]).ok

\* C6: with the file missing or a pattern line that is no regular
\* expression, the load does not complete: it ends in an error that is not
\* recovered, and nothing is ever called with the patterns read so far.
C6_BadConfigurationAborts ==
    BadConfiguration =>
        /\ phase # "ready"
        /\ last = NoCall
        /\ phase = "aborted" => raised \in {"FileNotFoundError", "re.error"}
        /\ phase = "reading" => (lineNo <= Len(lines) /\ raised = "none")

C6_Witness ==
    /\ BadConfiguration
    /\ phase = "aborted"
    /\ raised = "re.error"
    /\ patterns # <<>>

(***************************************************************************)
(* C7                                                                      *)
(***************************************************************************)
\* every non-overlapping match of the pattern replaced by the marker
ReplaceAll(pat, text) == Splice(text, Spans(pat, text), 1, 0, ClaimMarker)

\* the left fold of ReplaceAll over the patterns
RECURSIVE FoldPatterns(_, _)
FoldPatterns(pats, text) ==
    IF pats = <<>> THEN text
    ELSE FoldPatterns(Tail(pats), ReplaceAll(pats[1], text))

\* C7: clean_content(T) is the left fold, over the patterns in load order,
\* of replacing every match by the marker; with the pattern foo\d+ alone,
\* key=FOO123 gives key=[REMOVED_DD_KEY].
C7_LeftFold ==
    last.op = "clean_content" =>
        /\ last.text = FoldPatterns(patterns, last.arg)
        /\ (Sources(patterns) = <<ExamplePattern>> /\ last.arg = ExampleText)
              => last.text = Str(<<"k", "e", "y", "=">>) \o ClaimMarker

C7_Witness ==
    /\ last.op = "clean_content"
    /\ Len(patterns) = MaxPatterns
    /\ last.text # last.arg
    /\ last.text # FoldPatterns([k \in 1..Len(patterns) |->
                                    patterns[Len(patterns) + 1 - k]], last.arg)

(***************************************************************************)
(* C8                                                                      *)
(***************************************************************************)
\* C8: with callback running at once on distinct blobs and no
\* synchronization, every invocation returns True and leaves its blob as
\* the same invocation run alone leaves it, and no invocation changes the
\* blob of another: a blob holds what it held at entry until its own
\* invocation has written it.
C8_ConcurrentAsAlone ==
    \A t \in Invocations :
        /\ pc[t] \in {"decode", "scrub", "write"} => blob[t] = blob0[t]
        /\ pc[t] \in {"return", "done"}
              => blob[t] = callback(patterns, blob0[t]).data
        /\ pc[t] = "done" => returned[t] = "True"

C8_Witness ==
    /\ \A t \in Invocations : pc[t] = "done"
    /\ \E t, u \in Invocations : blob0[t] # blob0[u] /\ blob[t] # blob0[t]
    /\ \E t \in Invocations : content[t] = cleaned[t]

(***************************************************************************)
(* C9                                                                      *)
(***************************************************************************)
\* tags[i] marks the characters of the text that a replacement put there.
\* Whether pattern k or a later one replaces a match that holds such a
\* character.
RECURSIVE TouchesInserted(_, _, _, _)
TouchesInserted(pats, k, text, tags) ==
    IF k > Len(pats) THEN FALSE
    ELSE LET spans == Spans(pats[k], text)
             hit   == \E n \in 1..Len(spans) :
                          \E i \in (spans[n][1] + 1)..spans[n][2] : tags[i]
         IN  \/ hit
             \/ TouchesInserted(pats, k + 1,
                                Splice(text, spans, 1, 0, Marker),
                                Splice(tags, spans, 1, 0, [i \in 1..Len(Marker) |-> TRUE]))

ScrubTouchesInserted ==
    TouchesInserted(patterns, 1, last.arg, [i \in 1..Len(last.arg) |-> FALSE])

C10_PatternsImmutable ==
    /\ [](phase = "ready" => patterns = LoadFile(file.raw).patterns)
    /\ [][phase = "ready" => (patterns' = patterns /\ phase' = phase)]_vars
    /\ [][last'.op = "clean_content"
             => UNCHANGED <<file, phase, lines, lineNo, patterns, raised, invocationVars>>]_vars

C10_Witness ==
    /\ last.op = "clean_message"
    /\ patterns # <<>>
    /\ last.text # last.arg

====
